---- MODULE Spec2Model ----
(***************************************************************************)
(* Model of the service registry and HTTP dispatcher of package vapi       *)
(* (services.go).  Strings are sequences of one-character strings.         *)
(***************************************************************************)
EXTENDS Naturals, Sequences, FiniteSets, TLC

\* ------------------------------------------------------------------ bounds

\* Number of concurrent callers of RegisterService.
NumRegs == 2

\* Longest method identifier the string properties are checked on.
MaxLen == 3

\* ------------------------------------------------------------------ strings

Dot == "."

\* Characters of the identifiers; "s" and "m" are the lower-case letters.
Chars == {"S", "T", "M", "s", "m", Dot}

Str(n) == UNION {[1..k -> Chars] : k \in 0..n}

AllIdents == Str(MaxLen)

\* unicode.IsUpper
IsUpper(c) == c \in {"S", "T", "M", "N"}

\* unicode.ToTitle on one character
Upper(c) == CASE c = "s" -> "S" [] c = "m" -> "M" [] OTHER -> c

\* strings.Title's isSeparator, for the ASCII characters of Chars
isSeparator(c) == c = Dot

\* strings.Contains(s, ".")
Contains(s) == \E i \in 1..Len(s) : s[i] = Dot

\* strings.Index(s, "."), 1-based; only used when Contains(s)
Index(s) == CHOOSE i \in 1..Len(s) : s[i] = Dot /\ \A j \in 1..(i - 1) : s[j] # Dot

RECURSIVE Split(_)
\* strings.Split(s, "."): every dot separates two parts, empty parts are kept.
Split(s) ==
    IF ~Contains(s) THEN <<s>>
    ELSE <<SubSeq(s, 1, Index(s) - 1)>> \o Split(SubSeq(s, Index(s) + 1, Len(s)))

\* strings.SplitN(s, ".", 2): at most two parts, cut at the first dot.
SplitN2(s) ==
    IF ~Contains(s) THEN <<s>>
    ELSE <<SubSeq(s, 1, Index(s) - 1), SubSeq(s, Index(s) + 1, Len(s))>>

\* strings.Title(s): upper-cases every letter that starts a word.
Title(s) ==
    [i \in 1..Len(s) |-> IF i = 1 \/ isSeparator(s[i - 1]) THEN Upper(s[i]) ELSE s[i]]

RECURSIVE Join(_)
\* strings.Join(parts, ".")
Join(parts) ==
    IF Len(parts) = 0 THEN <<>>
    ELSE IF Len(parts) = 1 THEN parts[1]
    ELSE parts[1] \o <<Dot>> \o Join(Tail(parts))

\* isExported: the first rune of the name is upper case ("" decodes to RuneError).
isExported(name) == Len(name) > 0 /\ IsUpper(name[1])

\* ------------------------------------------------------------------ receivers

\* A method of a receiver type as reflection shows it.
GoodMethod(n) ==
    [name |-> n, exported |-> TRUE, numIn |-> 4, reqIsPtrRequest |-> TRUE,
     argsIsPtr |-> TRUE, argsExported |-> TRUE,
     replyIsPtr |-> TRUE, replyExported |-> TRUE,
     numOut |-> 1, outIsError |-> TRUE]

\* The tests of the method loop of register: TRUE iff the method is kept.
Qualifies(m) ==
    /\ m.exported
    /\ m.numIn = 4
    /\ m.reqIsPtrRequest
    /\ m.argsIsPtr /\ m.argsExported
    /\ m.replyIsPtr /\ m.replyExported
    /\ m.numOut = 1
    /\ m.outIsError

\* Methods that register skips: wrong arity, a non-pointer argument, no error
\* result, an unexported method.
BadMethods ==
    {[GoodMethod(<<"S">>) EXCEPT !.numIn = 3],
     [GoodMethod(<<"T">>) EXCEPT !.argsIsPtr = FALSE],
     [GoodMethod(<<"N">>) EXCEPT !.numOut = 0, !.outIsError = FALSE],
     [GoodMethod(<<"m">>) EXCEPT !.exported = FALSE]}

\* The receivers the callers register: id, name of the (indirected) type,
\* method set of the receiver type.
Receivers ==
    {[id |-> "rA", typeName |-> <<"S">>, methods |-> {GoodMethod(<<"M">>)}],
     [id |-> "rB", typeName |-> <<"T">>,
      methods |-> {GoodMethod(<<"M">>), GoodMethod(<<"N">>)} \cup BadMethods],
     [id |-> "rC", typeName |-> <<"s">>, methods |-> {GoodMethod(<<"M">>)}],
     [id |-> "rD", typeName |-> <<"s">>, methods |-> BadMethods]}

\* The explicit names the callers pass; <<>> asks for the type's name.
Names == {<<>>, <<"S">>, <<"S", Dot, "S">>}

NoReceiver == [id |-> "none", typeName |-> <<>>, methods |-> {}]

\* The receiver a caller passed, from the id kept in the caller's locals.
Rcvr(id) == IF id = "none" THEN NoReceiver ELSE CHOOSE r \in Receivers : r.id = id

\* ------------------------------------------------------------------ state

Regs == 1..NumRegs

\* The mutex is free.
NoOwner == 0

\* The caller of HasMethod and GetAll.
Callers == {NumRegs + 1}

\* The goroutine that serves an HTTP request.
Reqs == {NumRegs + 2}

\* r.Method of the requests.
Verbs == {"GET", "POST", "DELETE"}

\* The format query parameter: ends in "xml" or not.
Formats == {"json", "xml"}

\* What an invoked service method does: the error it returns and whether it
\* wrote into the reply before returning.
Outcomes == [err : {"nil", "business error"}, reply : {"zero", "populated"}]

\* The method identifiers the callers and the requests use.
Idents ==
    {<<"S">>, <<"S", Dot, "M">>, <<"S", Dot, "m">>, <<"s", Dot, "M">>,
     <<"S", Dot, "M", Dot, "M">>, <<Dot, "M">>, <<"S", Dot>>, <<Dot>>,
     <<"S", Dot, "S">>, <<"T", Dot, "N">>}

\* The identifiers the direct callers of HasMethod pass.
CallIdents == {<<"S">>, <<"S", Dot, "M">>}

VARIABLES
    servicesNil,   \* m.services == nil
    services,      \* m.services: service name -> service
    mutex,         \* holder of m.mutex, or NoOwner
    reg,           \* per registering caller: position and locals of register
    call,          \* per caller of HasMethod / GetAll: position, argument, result
    req            \* per HTTP request: position and locals of ApiHandler / ServeHTTP

vars == <<servicesNil, services, mutex, reg, call, req>>

EmptyMap == [n \in {} |-> 0]

\* s := &service{...} with its method map after the method loop
NewService(rcvr, name) ==
    [name |-> IF name = <<>> THEN rcvr.typeName ELSE name,
     rcvr |-> rcvr.id,
     methods |-> [n \in {m.name : m \in {x \in rcvr.methods : Qualifies(x)}} |->
                    [method |-> <<rcvr.id, n>>, argsType |-> "Args", replyType |-> "Reply"]]]

NoService == [name |-> <<>>, rcvr |-> "none", methods |-> EmptyMap]

RegIdle == [pc |-> "idle", rcvr |-> "none", name |-> <<>>, s |-> NoService, err |-> "none"]

NoMethod == [method |-> <<"none", <<>>>>, argsType |-> "none", replyType |-> "none"]

CallIdle == [pc |-> "idle", op |-> "none", method |-> <<>>, res |-> "none"]

\* The http.ResponseWriter before anything is written.
NoResponse ==
    [status |-> 0, kind |-> "none", codec |-> "none", msg |-> "none", arg |-> <<>>,
     reply |-> "none", nosniff |-> FALSE]

ReqIdle ==
    [pc |-> "idle", verb |-> "none", format |-> "none", ident |-> <<>>, method |-> <<>>,
     service |-> NoService, smethod |-> NoMethod, out |-> [err |-> "none", reply |-> "none"],
     calls |-> 0, resp |-> NoResponse]

Init ==
    /\ servicesNil = TRUE
    /\ services = EmptyMap
    /\ mutex = NoOwner
    /\ reg = [p \in Regs |-> RegIdle]
    /\ call = [c \in Callers |-> CallIdle]
    /\ req = [q \in Reqs |-> ReqIdle]

\* A lock that excludes nobody.
CanLockAlways(p) == TRUE

\* sync.Mutex: Lock returns only when nobody holds the mutex.
CanLock(p) == mutex = NoOwner

\* The test for an existing service left out.
AlreadyDefinedNever(name) == FALSE

\* _, ok := m.services[name]
AlreadyDefined(name) == name \in DOMAIN services

\* The checks of register without the test for an empty method map.
ValidateNoMethodCheck(rcvr, name) ==
    LET s == NewService(rcvr, name) IN
    IF name = <<>> /\ ~isExported(s.name) THEN "ErrNotExported"
    ELSE IF s.name = <<>> THEN "ErrNoName"
    ELSE "nil"

\* The checks of register before the lock: "nil" or the error returned.
Validate(rcvr, name) ==
    LET s == NewService(rcvr, name) IN
    IF name = <<>> /\ ~isExported(s.name) THEN "ErrNotExported"
    ELSE IF s.name = <<>> THEN "ErrNoName"
    ELSE IF DOMAIN s.methods = {} THEN "ErrNoMethods"
    ELSE "nil"

\* register, up to the lock: build the service, check name and methods.
RegisterBegin(p, rcvr, name) ==
    /\ reg[p].pc = "idle"
    /\ reg' = [reg EXCEPT ![p] =
                 [pc |-> IF Validate(rcvr, name) = "nil" THEN "lock" ELSE "done",
                  rcvr |-> rcvr.id, name |-> name, s |-> NewService(rcvr, name),
                  err |-> IF Validate(rcvr, name) = "nil" THEN "none" ELSE Validate(rcvr, name)]]
    /\ UNCHANGED <<servicesNil, services, mutex, call, req>>

\* m.mutex.Lock()
RegisterLock(p) ==
    /\ reg[p].pc = "lock"
    /\ CanLock(p)
    /\ mutex' = p
    /\ reg' = [reg EXCEPT ![p].pc = "check"]
    /\ UNCHANGED <<servicesNil, services, call, req>>

\* A new map made for every service that is not yet defined.
RegisterCheckAlwaysMake(p) ==
    /\ reg[p].pc = "check"
    /\ IF ~servicesNil /\ reg[p].s.name \in DOMAIN services
       THEN /\ reg' = [reg EXCEPT ![p].pc = "done", ![p].err = "ErrDefined"]
            /\ mutex' = NoOwner
       ELSE /\ reg' = [reg EXCEPT ![p].pc = "make"]
            /\ UNCHANGED mutex
    /\ UNCHANGED <<servicesNil, services, call, req>>

\* The service stored before the test for an existing one.
RegisterCheckStoreFirst(p) ==
    /\ reg[p].pc = "check"
    /\ IF servicesNil
       THEN /\ reg' = [reg EXCEPT ![p].pc = "make"]
            /\ UNCHANGED <<mutex, services>>
       ELSE IF reg[p].s.name \in DOMAIN services
       THEN /\ reg' = [reg EXCEPT ![p].pc = "done", ![p].err = "ErrDefined"]
            /\ services' = [services EXCEPT ![reg[p].s.name] = reg[p].s]
            /\ mutex' = NoOwner
       ELSE /\ reg' = [reg EXCEPT ![p].pc = "store"]
            /\ UNCHANGED <<mutex, services>>
    /\ UNCHANGED <<servicesNil, call, req>>

\* if m.services == nil {...} else if _, ok := m.services[s.name]; ok { return error }
RegisterCheck(p) ==
    /\ reg[p].pc = "check"
    /\ IF servicesNil
       THEN /\ reg' = [reg EXCEPT ![p].pc = "make"]
            /\ UNCHANGED mutex
       ELSE IF AlreadyDefined(reg[p].s.name)
       THEN /\ reg' = [reg EXCEPT ![p].pc = "done", ![p].err = "ErrDefined"]
            /\ mutex' = NoOwner
       ELSE /\ reg' = [reg EXCEPT ![p].pc = "store"]
            /\ UNCHANGED mutex
    /\ UNCHANGED <<servicesNil, services, call, req>>

\* m.services = make(map[string]*service)
RegisterMake(p) ==
    /\ reg[p].pc = "make"
    /\ servicesNil' = FALSE
    /\ services' = EmptyMap
    /\ reg' = [reg EXCEPT ![p].pc = "store"]
    /\ UNCHANGED <<mutex, call, req>>

\* The map replaced by one that holds the new service only.
RegisterStoreReplace(p) ==
    /\ reg[p].pc = "store"
    /\ services' = [n \in {reg[p].s.name} |-> reg[p].s]
    /\ mutex' = NoOwner
    /\ reg' = [reg EXCEPT ![p].pc = "done", ![p].err = "nil"]
    /\ UNCHANGED <<servicesNil, call, req>>

\* m.services[s.name] = s; return nil (and the deferred Unlock)
RegisterStore(p) ==
    /\ reg[p].pc = "store"
    /\ services' = [n \in DOMAIN services \cup {reg[p].s.name} |->
                      IF n = reg[p].s.name THEN reg[p].s ELSE services[n]]
    /\ mutex' = NoOwner
    /\ reg' = [reg EXCEPT ![p].pc = "done", ![p].err = "nil"]
    /\ UNCHANGED <<servicesNil, call, req>>

\* ------------------------------------------------------------------ lookup

\* The method looked up under the service part of the identifier.
LookupMethodByService(parts) ==
    IF servicesNil \/ parts[1] \notin DOMAIN services
    THEN [err |-> "ErrNoService", service |-> NoService, method |-> NoMethod]
    ELSE IF parts[1] \notin DOMAIN services[parts[1]].methods
    THEN [err |-> "ErrNoMethod", service |-> NoService, method |-> NoMethod]
    ELSE [err |-> "nil", service |-> services[parts[1]],
          method |-> services[parts[1]].methods[parts[1]]]

\* The part of get after the split: the map read and the method lookup.
Lookup(parts) ==
    IF servicesNil \/ parts[1] \notin DOMAIN services
    THEN [err |-> "ErrNoService", service |-> NoService, method |-> NoMethod]
    ELSE IF parts[2] \notin DOMAIN services[parts[1]].methods
    THEN [err |-> "ErrNoMethod", service |-> NoService, method |-> NoMethod]
    ELSE [err |-> "nil", service |-> services[parts[1]],
          method |-> services[parts[1]].methods[parts[2]]]

\* get(method) on the registry of the current state.
get(method) ==
    IF Len(Split(method)) # 2
    THEN [err |-> "ErrIllFormed", service |-> NoService, method |-> NoMethod]
    ELSE Lookup(Split(method))

\* A HasMethod that finds every method.
HasMethodAlways(method) == TRUE

\* HasMethod(method): get returned no error.
HasMethod(method) == get(method).err = "nil"

\* HasMethod(method): get's split; an ill-formed identifier returns before the lock.
HasMethodBegin(c, method) ==
    /\ call[c].pc \in {"idle", "done"}
    /\ call' = [call EXCEPT ![c] =
                  IF Len(Split(method)) # 2
                  THEN [pc |-> "done", op |-> "HasMethod", method |-> method,
                        res |-> IF HasMethod(method) THEN "true" ELSE "false"]
                  ELSE [pc |-> "lock", op |-> "HasMethod", method |-> method, res |-> "none"]]
    /\ UNCHANGED <<servicesNil, services, mutex, reg, req>>

\* m.mutex.Lock() of get
HasMethodLock(c) ==
    /\ call[c].pc = "lock"
    /\ CanLock(c)
    /\ mutex' = c
    /\ call' = [call EXCEPT ![c].pc = "read"]
    /\ UNCHANGED <<servicesNil, services, reg, req>>

\* service := m.services[parts[0]]; m.mutex.Unlock(); the rest of get
HasMethodRead(c) ==
    /\ call[c].pc = "read"
    /\ mutex' = NoOwner
    /\ call' = [call EXCEPT ![c].pc = "done",
                            ![c].res = IF HasMethod(call[c].method) THEN "true" ELSE "false"]
    /\ UNCHANGED <<servicesNil, services, reg, req>>

\* GetAll: m.mutex.Lock()
GetAllLock(c) ==
    /\ call[c].pc \in {"idle", "done"}
    /\ CanLock(c)
    /\ mutex' = c
    /\ call' = [call EXCEPT ![c] = [pc |-> "readall", op |-> "GetAll", method |-> <<>>, res |-> "none"]]
    /\ UNCHANGED <<servicesNil, services, reg, req>>

\* service := m.services; m.mutex.Unlock(); return service, nil
GetAllRead(c) ==
    /\ call[c].pc = "readall"
    /\ mutex' = NoOwner
    /\ call' = [call EXCEPT ![c].pc = "done",
                            ![c].res = IF servicesNil THEN "nilmap" ELSE "map"]
    /\ UNCHANGED <<servicesNil, services, reg, req>>

\* ------------------------------------------------------------------ HTTP dispatch

\* WritePureError(w, status, msg): the status line, then a plain-text body.
WritePureError(status, msg, arg) ==
    [status |-> status, kind |-> "pure", codec |-> "text", msg |-> msg, arg |-> arg,
     reply |-> "none", nosniff |-> FALSE]

\* codecReq.Responser.WriteError(w, status, err)
WriteError(codec, status, msg, arg) ==
    [status |-> status, kind |-> "error", codec |-> codec, msg |-> msg, arg |-> arg,
     reply |-> "none", nosniff |-> FALSE]

\* codecReq.Responser.WriteResponse(w, reply)
WriteResponse(codec, reply) ==
    [status |-> 200, kind |-> "reply", codec |-> codec, msg |-> "none", arg |-> <<>>,
     reply |-> reply, nosniff |-> FALSE]

\* codecReq.Method(): the method name kept in the request context.
CodecMethod(r) == r.method

\* The codec ServeHTTP selects from the format query parameter.
SelectedCodec(format) == IF format = "xml" THEN "xml" ELSE "json"

\* The whole identifier title-cased, the service part included.
NormalizeWhole(ident) == Title(ident)

\* The method name ApiHandler puts in the context: the part after the first
\* dot is title-cased.
Normalize(ident) ==
    LET partsMethod == SplitN2(ident) IN Join(<<partsMethod[1], Title(partsMethod[2])>>)

\* The reply written whatever the method returned.
EncodeAlwaysReply(codec, out) == WriteResponse(codec, out.reply)

\* The end of ServeHTTP: the reply if the method returned nil, else its error.
Encode(codec, out) ==
    IF out.err = "nil" THEN WriteResponse(codec, out.reply)
    ELSE WriteError(codec, 400, out.err, <<>>)

Answer(q, resp) == [req EXCEPT ![q].pc = "done", ![q].resp = resp]

\* ApiHandler up to the map access of HasMethod.
ApiHandler(q, verb, format, ident) ==
    /\ req[q].pc = "idle"
    /\ LET r == [req[q] EXCEPT !.verb = verb, !.format = format, !.ident = ident] IN
       IF ~Contains(ident) \/ Len(SplitN2(ident)) < 2
       THEN req' = [req EXCEPT ![q] =
                      [r EXCEPT !.pc = "done",
                                !.resp = WritePureError(404, "api: Method not found", ident)]]
       ELSE LET method == Normalize(ident) IN
            IF Len(Split(method)) = 2
            THEN req' = [req EXCEPT ![q] = [r EXCEPT !.pc = "has_lock", !.method = method]]
            ELSE IF HasMethod(method)
            THEN req' = [req EXCEPT ![q] = [r EXCEPT !.pc = "serve", !.method = method]]
            ELSE req' = [req EXCEPT ![q] =
                           [r EXCEPT !.pc = "done", !.method = method,
                                     !.resp = WritePureError(404, "api: Method not found", method)]]
    /\ UNCHANGED <<servicesNil, services, mutex, reg, call>>

\* m.mutex.Lock() of the get of HasMethod
ApiHandlerLock(q) ==
    /\ req[q].pc = "has_lock"
    /\ CanLock(q)
    /\ mutex' = q
    /\ req' = [req EXCEPT ![q].pc = "has_read"]
    /\ UNCHANGED <<servicesNil, services, reg, call>>

\* The get of HasMethod without its Unlock.
ApiHandlerReadKeepLock(q) ==
    /\ req[q].pc = "has_read"
    /\ IF HasMethod(req[q].method)
       THEN req' = [req EXCEPT ![q].pc = "serve"]
       ELSE req' = Answer(q, WritePureError(404, "api: Method not found", req[q].method))
    /\ UNCHANGED <<servicesNil, services, mutex, reg, call>>

\* The map read and Unlock of that get, then the test of ApiHandler.
ApiHandlerRead(q) ==
    /\ req[q].pc = "has_read"
    /\ mutex' = NoOwner
    /\ IF HasMethod(req[q].method)
       THEN req' = [req EXCEPT ![q].pc = "serve"]
       ELSE req' = Answer(q, WritePureError(404, "api: Method not found", req[q].method))
    /\ UNCHANGED <<servicesNil, services, reg, call>>

\* ServeHTTP up to the map access of get: verb, codec, method name, split.
ServeHTTP(q, methodFails) ==
    /\ req[q].pc = "serve"
    /\ IF req[q].verb # "POST" /\ req[q].verb # "GET"
       THEN req' = Answer(q, WritePureError(405, "api: POST or GET method required", <<>>))
       ELSE IF methodFails
       THEN req' = Answer(q, WritePureError(400, "errMethod", <<>>))
       ELSE IF Len(Split(CodecMethod(req[q]))) # 2
       THEN req' = Answer(q, WriteError(SelectedCodec(req[q].format), 400, "ErrIllFormed",
                                        CodecMethod(req[q])))
       ELSE req' = [req EXCEPT ![q].pc = "get_lock"]
    /\ UNCHANGED <<servicesNil, services, mutex, reg, call>>

\* m.mutex.Lock() of the get of ServeHTTP
ServeHTTPLock(q) ==
    /\ req[q].pc = "get_lock"
    /\ CanLock(q)
    /\ mutex' = q
    /\ req' = [req EXCEPT ![q].pc = "get_read"]
    /\ UNCHANGED <<servicesNil, services, reg, call>>

\* The get of ServeHTTP without its Unlock.
ServeHTTPReadKeepLock(q) ==
    /\ req[q].pc = "get_read"
    /\ LET g == get(CodecMethod(req[q])) IN
       IF g.err # "nil"
       THEN req' = Answer(q, WriteError(SelectedCodec(req[q].format), 400, g.err,
                                        CodecMethod(req[q])))
       ELSE req' = [req EXCEPT ![q].pc = "decode", ![q].service = g.service,
                               ![q].smethod = g.method]
    /\ UNCHANGED <<servicesNil, services, mutex, reg, call>>

\* The map read and Unlock of that get, then the errGet test of ServeHTTP.
ServeHTTPRead(q) ==
    /\ req[q].pc = "get_read"
    /\ mutex' = NoOwner
    /\ LET g == get(CodecMethod(req[q])) IN
       IF g.err # "nil"
       THEN req' = Answer(q, WriteError(SelectedCodec(req[q].format), 400, g.err,
                                        CodecMethod(req[q])))
       ELSE req' = [req EXCEPT ![q].pc = "decode", ![q].service = g.service,
                               ![q].smethod = g.method]
    /\ UNCHANGED <<servicesNil, services, reg, call>>

\* codecReq.ReadRequest(args.Interface())
ReadRequest(q, readFails) ==
    /\ req[q].pc = "decode"
    /\ IF readFails
       THEN req' = Answer(q, WriteError(SelectedCodec(req[q].format), 400, "errRead", <<>>))
       ELSE req' = [req EXCEPT ![q].pc = "call"]
    /\ UNCHANGED <<servicesNil, services, mutex, reg, call>>

\* The method called again when it returned an error.
CallMethodRetry(q, out) ==
    /\ req[q].pc = "call"
    /\ req' = [req EXCEPT ![q].pc = "respond", ![q].out = out,
                          ![q].calls = req[q].calls + (IF out.err = "nil" THEN 1 ELSE 2)]
    /\ UNCHANGED <<servicesNil, services, mutex, reg, call>>

\* methodSpec.method.Func.Call(...): the method runs and returns.
CallMethod(q, out) ==
    /\ req[q].pc = "call"
    /\ req' = [req EXCEPT ![q].pc = "respond", ![q].out = out,
                          ![q].calls = req[q].calls + 1]
    /\ UNCHANGED <<servicesNil, services, mutex, reg, call>>

\* The nosniff header, then the reply or the error of the method.
WriteResult(q) ==
    /\ req[q].pc = "respond"
    /\ req' = Answer(q, [Encode(SelectedCodec(req[q].format), req[q].out)
                            EXCEPT !.nosniff = TRUE])
    /\ UNCHANGED <<servicesNil, services, mutex, reg, call>>

\* ------------------------------------------------------------------ specifications

\* The receivers and names registered while requests are served.
ServedReceivers == {r \in Receivers : r.id \in {"rA", "rB"}}

ServedNames == {<<>>, <<"S">>}

Register(p, rcvrs, names) ==
    \/ \E rcvr \in rcvrs, name \in names : RegisterBegin(p, rcvr, name)
    \/ RegisterLock(p)
    \/ RegisterCheck(p)
    \/ RegisterMake(p)
    \/ RegisterStore(p)

\* The registry and its direct callers.
Next ==
    \/ \E p \in Regs : Register(p, Receivers, Names)
    \/ \E c \in Callers :
        \/ \E method \in CallIdents : HasMethodBegin(c, method)
        \/ HasMethodLock(c)
        \/ HasMethodRead(c)
        \/ GetAllLock(c)
        \/ GetAllRead(c)

Spec == Init /\ [][Next]_vars

\* The registry and an HTTP request.
NextHTTP ==
    \/ \E p \in Regs : Register(p, ServedReceivers, ServedNames)
    \/ \E q \in Reqs :
        \/ \E verb \in Verbs, format \in Formats, ident \in Idents :
              ApiHandler(q, verb, format, ident)
        \/ ApiHandlerLock(q)
        \/ ApiHandlerRead(q)
        \/ \E methodFails \in BOOLEAN : ServeHTTP(q, methodFails)
        \/ ServeHTTPLock(q)
        \/ ServeHTTPRead(q)
        \/ \E readFails \in BOOLEAN : ReadRequest(q, readFails)
        \/ \E out \in Outcomes : CallMethod(q, out)
        \/ WriteResult(q)

SpecHTTP == Init /\ [][NextHTTP]_vars


\* The steps of a register call once it has begun.
RegisterRun(p) ==
    RegisterLock(p) \/ RegisterCheck(p) \/ RegisterMake(p) \/ RegisterStore(p)

\* The steps of a request once ApiHandler has begun.
RequestRun(q) ==
    \/ ApiHandlerLock(q)
    \/ ApiHandlerRead(q)
    \/ \E methodFails \in BOOLEAN : ServeHTTP(q, methodFails)
    \/ ServeHTTPLock(q)
    \/ ServeHTTPRead(q)
    \/ \E readFails \in BOOLEAN : ReadRequest(q, readFails)
    \/ \E out \in Outcomes : CallMethod(q, out)
    \/ WriteResult(q)

\* The registry and an HTTP request, where every goroutine that has begun a
\* call keeps running and an invoked method returns.
SpecHTTPFair ==
    /\ SpecHTTP
    /\ \A p \in Regs : WF_vars(RegisterRun(p))
    /\ \A q \in Reqs : WF_vars(RequestRun(q))

\* ------------------------------------------------------------------ claims on the registry

\* A register call of p returns in this step.
Returns(p) == reg[p].pc # "done" /\ reg'[p].pc = "done"

\* The identifier "Name.Method".
Dotted(name, m) == name \o <<Dot>> \o m

\* Strings without a dot, of length at most n.
DotFree(n) == {s \in Str(n) : \A i \in 1..Len(s) : s[i] # Dot}

\* The service and method parts of the identifiers "S.M" looked up: the names
\* services are stored under, the names of their methods, and others.
ServiceParts == {<<>>, <<"S">>, <<"T">>, <<"s">>}

MethodParts == {<<>>, <<"M">>, <<"N">>, <<"S">>, <<"m">>}

\* The receiver has no method that register keeps.
ZeroQualifying(rcvr) == \A m \in rcvr.methods : ~Qualifies(m)

\* The name checks and the method check of register pass for these arguments.
PassesChecks(rcvr, name) ==
    /\ name = <<>> => isExported(rcvr.typeName)
    /\ ~ZeroQualifying(rcvr)

\* C1 (as claimed): after a successful register(receiver, name), in that state
\* and in every later one, HasMethod("Name.Method") is true for each qualifying
\* method of the service.
C1_HasMethodAfterRegister ==
    \A p \in Regs :
        reg[p].pc = "done" /\ reg[p].err = "nil" =>
            \A m \in DOMAIN reg[p].s.methods : HasMethod(Dotted(reg[p].s.name, m))

\* C2 (as claimed): a register call that returns while a service is stored
\* under the name it resolves to returns "service already defined" and leaves
\* the registry as it was.
C2_AnyLaterCallAlreadyDefined ==
    [][\A p \in Regs :
          Returns(p) /\ reg'[p].s.name \in DOMAIN services =>
              reg'[p].err = "ErrDefined" /\ services' = services]_vars

\* C2 (amended): a register call that returns while a service is stored under
\* the name it resolves to leaves the stored entry as it was, and returns
\* "service already defined" whenever its name and method checks pass.
C2_NoOverwrite ==
    [][\A p \in Regs :
          Returns(p) /\ reg'[p].s.name \in DOMAIN services =>
              /\ services' = services
              /\ servicesNil' = servicesNil
              /\ reg'[p].err # "nil"
              /\ PassesChecks(Rcvr(reg'[p].rcvr), reg'[p].name) => reg'[p].err = "ErrDefined"]_vars

C2_Witness ==
    \E p \in Regs :
        /\ reg[p].pc = "done" /\ reg[p].err = "ErrDefined"
        /\ reg[p].s.name \in DOMAIN services
        /\ services[reg[p].s.name].rcvr # reg[p].rcvr

\* C3: when all NumRegs callers have registered services with pairwise
\* distinct names, each with a qualifying method, every call has succeeded and
\* the registry holds exactly their NumRegs entries.
C3_DistinctAllStored ==
    (/\ \A p \in Regs : reg[p].pc = "done" /\ PassesChecks(Rcvr(reg[p].rcvr), reg[p].name)
     /\ \A p, q \in Regs : p # q => reg[p].s.name # reg[q].s.name)
    =>
    /\ \A p \in Regs : reg[p].err = "nil"
    /\ ~servicesNil
    /\ DOMAIN services = {reg[p].s.name : p \in Regs}
    /\ Cardinality(DOMAIN services) = NumRegs
    /\ \A p \in Regs : services[reg[p].s.name] = reg[p].s

C3_Witness ==
    /\ \A p \in Regs : reg[p].pc = "done" /\ reg[p].err = "nil"
    /\ \A p, q \in Regs : p # q => reg[p].s.name # reg[q].s.name
    /\ Cardinality(DOMAIN services) = NumRegs

\* The identifier is two non-empty parts with one dot between them.
TwoNonEmptyParts(id) ==
    \E a, b \in DotFree(MaxLen) : a # <<>> /\ b # <<>> /\ id = Dotted(a, b)

\* C4 (as claimed): get returns the ill-formed error for every identifier that
\* is not two non-empty dot-separated parts, and no such identifier resolves.
C4_IllFormedUnlessTwoNonEmpty ==
    \A id \in AllIdents : ~TwoNonEmptyParts(id) => get(id).err = "ErrIllFormed"

\* C5: for "S.M", get fails with service-not-found exactly when S is not
\* registered, with method-not-found exactly when S is registered without M,
\* and otherwise returns the entry stored under S and its descriptor of M; an
\* identifier that resolves keeps resolving to the same service and method.
C5_Resolution ==
    \A S \in ServiceParts, M \in MethodParts :
            LET r == get(Dotted(S, M)) IN
            /\ r.err = "ErrNoService" <=> S \notin DOMAIN services
            /\ r.err = "ErrNoMethod" <=>
                   (S \in DOMAIN services /\ M \notin DOMAIN services[S].methods)
            /\ (S \in DOMAIN services /\ M \in DOMAIN services[S].methods) =>
                   /\ r.err = "nil"
                   /\ r.service = services[S]
                   /\ r.method = services[S].methods[M]
                   /\ r.method.method = <<services[S].rcvr, M>>

C5_Stable ==
    \A S \in ServiceParts, M \in MethodParts :
        get(Dotted(S, M)).err = "nil" => get(Dotted(S, M))' = get(Dotted(S, M))

\* C5: the resolution above holds in every state and every step keeps what
\* a resolving identifier resolves to.
C5_GetResolvesOne == []C5_Resolution /\ [][C5_Stable]_vars

C5_Witness ==
    /\ get(<<"S", Dot, "M">>).err = "nil"
    /\ get(<<"S", Dot, "S">>).err = "ErrNoMethod"
    /\ get(<<"T", Dot, "M">>).err = "ErrNoService"
    /\ \E p \in Regs : reg[p].pc = "done" /\ reg[p].err = "ErrDefined"

\* C6 (as claimed): every stored entry has a method, and a register call for
\* a receiver without qualifying methods returns the no-suitable-methods
\* error and that receiver is in no entry.
C6_ZeroMethodsErrNoMethods ==
    /\ \A n \in DOMAIN services : DOMAIN services[n].methods # {}
    /\ \A p \in Regs :
          reg[p].pc = "done" /\ ZeroQualifying(Rcvr(reg[p].rcvr)) =>
              /\ reg[p].err = "ErrNoMethods"
              /\ \A n \in DOMAIN services : services[n].rcvr # reg[p].rcvr

\* C6 (amended): every stored entry has a method, and a register call for a
\* receiver without qualifying methods returns an error, the
\* no-suitable-methods error when its name checks pass and the not-exported
\* error otherwise, and that receiver is in no entry.
C6_ZeroMethodsRejected ==
    /\ \A n \in DOMAIN services : DOMAIN services[n].methods # {}
    /\ \A p \in Regs :
          reg[p].pc # "idle" /\ ZeroQualifying(Rcvr(reg[p].rcvr)) =>
              /\ reg[p].pc = "done"
              /\ reg[p].err =
                    IF reg[p].name = <<>> /\ ~isExported(Rcvr(reg[p].rcvr).typeName)
                    THEN "ErrNotExported" ELSE "ErrNoMethods"
              /\ \A n \in DOMAIN services : services[n].rcvr # reg[p].rcvr

C6_Witness ==
    /\ DOMAIN services # {}
    /\ \E p \in Regs :
          /\ reg[p].pc = "done" /\ ZeroQualifying(Rcvr(reg[p].rcvr))
          /\ reg[p].err = "ErrNoMethods"
          /\ reg[p].s.name \in DOMAIN services

\* C7: a step of a register call changes the registry only if the call
\* succeeds, and then it leaves the complete entry under its name and every
\* other entry as it was; a call that returns an error changed nothing.
C7_Step(p) ==
    /\ (Returns(p) /\ reg'[p].err # "nil") =>
           services' = services /\ servicesNil' = servicesNil
    /\ (reg'[p] # reg[p] /\ (services' # services \/ servicesNil' # servicesNil)) =>
           /\ reg'[p].pc \in {"store", "done"}
           /\ reg'[p].pc = "done" =>
                 /\ reg'[p].err = "nil"
                 /\ DOMAIN services' = DOMAIN services \cup {reg[p].s.name}
                 /\ \A n \in DOMAIN services : n # reg[p].s.name => services'[n] = services[n]
                 /\ services'[reg[p].s.name].rcvr = reg[p].rcvr
                 /\ DOMAIN services'[reg[p].s.name].methods =
                        {m.name : m \in {x \in Rcvr(reg[p].rcvr).methods : Qualifies(x)}}
    /\ (reg[p].pc = "store" /\ reg'[p] # reg[p]) =>
           reg'[p].pc = "done" /\ reg'[p].err = "nil"

\* C7: every step of every register call is such a step.
C7_FailureChangesNothing == [][\A p \in Regs : C7_Step(p)]_vars

C7_Witness ==
    /\ DOMAIN services # {}
    /\ \E p, q \in Regs :
          /\ reg[p].pc = "done" /\ reg[p].err = "ErrDefined"
          /\ reg[q].pc = "done" /\ reg[q].err = "nil"

\* ------------------------------------------------------------------ claims on the dispatcher

\* The identifier names a stored service and, after title-casing, one of its
\* methods: it is "S.m" with S a stored name without a dot.
Resolvable(ident) ==
    \E S \in DOMAIN services :
        /\ \A i \in 1..Len(S) : S[i] # Dot
        /\ \E M \in DOMAIN services[S].methods :
              /\ Len(ident) = Len(S) + 1 + Len(M)
              /\ SubSeq(ident, 1, Len(S)) = S
              /\ ident[Len(S) + 1] = Dot
              /\ \A i \in 1..Len(M) :
                    LET c == ident[Len(S) + 1 + i] IN
                    IF i = 1 THEN c = M[i] \/ Upper(c) = M[i] ELSE c = M[i]

\* C8 (as claimed): a request whose verb is neither GET nor POST is answered
\* with status 405, whatever its method identifier.
C8_OtherVerb405 ==
    \A q \in Reqs :
        req[q].pc = "done" /\ req[q].verb \notin {"GET", "POST"} => req[q].resp.status = 405

\* C9: a GET or POST request whose identifier does not resolve (no dot,
\* malformed, or no such service and method) is answered 404 "Method not
\* found", and no method is invoked for it.
C9_Unresolved404 ==
    \A q \in Reqs :
        (req[q].pc # "idle" /\ req[q].verb \in {"GET", "POST"} /\ ~Resolvable(req[q].ident)) =>
            /\ req[q].calls = 0
            /\ req[q].pc \in {"has_lock", "has_read", "done"}
            /\ req[q].pc = "done" =>
                  /\ req[q].resp.status = 404
                  /\ req[q].resp.msg = "api: Method not found"
                  /\ req[q].resp.kind = "pure"

C9_Witness ==
    \E q \in Reqs :
        /\ req[q].pc = "done" /\ req[q].verb = "GET" /\ req[q].resp.status = 404
        /\ req[q].ident = <<"S", Dot, "S">>
        /\ <<"S">> \in DOMAIN services

\* C10: when the invoked method returned an error the response has status
\* 400 and the error's message and not the reply; when it returned nil the
\* response is the reply and no error.
C10_ErrorOrReply ==
    \A q \in Reqs :
        req[q].pc = "done" /\ req[q].calls > 0 =>
            IF req[q].out.err # "nil"
            THEN /\ req[q].resp.status = 400
                 /\ req[q].resp.kind = "error"
                 /\ req[q].resp.msg = req[q].out.err
                 /\ req[q].resp.reply = "none"
            ELSE /\ req[q].resp.kind = "reply"
                 /\ req[q].resp.reply = req[q].out.reply
                 /\ req[q].resp.status = 200
                 /\ req[q].resp.msg = "none"

C10_Witness ==
    \E q \in Reqs :
        /\ req[q].pc = "done" /\ req[q].calls = 1
        /\ req[q].out = [err |-> "business error", reply |-> "populated"]
        /\ req[q].resp.status = 400

\* C11 (as claimed): every response carries x-content-type-options: nosniff.
C11_NosniffAlways ==
    \A q \in Reqs : req[q].pc = "done" => req[q].resp.nosniff

\* C12: a request holds the registry lock only between the Lock and the map
\* read of a get; while it decodes, invokes or writes it does not hold it, so
\* a registration waiting for the lock during an invocation can take it, or
\* waits only for another registration that is inside its critical section.
C12_LockOnlyAroundMap ==
    /\ \A q \in Reqs : mutex = q <=> req[q].pc \in {"has_read", "get_read"}
    /\ \A p \in Regs : mutex = p <=> reg[p].pc \in {"check", "make", "store"}
    /\ \A q \in Reqs :
          req[q].pc \in {"decode", "call", "respond"} =>
              /\ mutex # q
              /\ \A p \in Regs :
                    reg[p].pc = "lock" => (ENABLED RegisterLock(p) \/ mutex \in Regs \ {p})

C12_Witness ==
    \E q \in Reqs, p \in Regs :
        /\ req[q].pc = "call"
        /\ reg[p].pc = "store" /\ mutex = p

\* The request was answered without its method having been reached: the
\* verb, the resolution or the decoding failed.
FailedBeforeCall(r) ==
    \/ r.resp.status \in {404, 405}
    \/ r.resp.msg \in {"errMethod", "errRead", "ErrIllFormed", "ErrNoService", "ErrNoMethod"}

\* C13: a request invokes at most one method, once: none before it has passed
\* verb validation, resolution and decoding, none if one of them failed, and
\* exactly one otherwise, the method it names of the receiver stored under the
\* service it names.
C13_OneInvocation ==
    \A q \in Reqs :
        LET r == req[q] IN
        /\ r.calls <= 1
        /\ r.pc \in {"idle", "has_lock", "has_read", "serve", "get_lock", "get_read",
                     "decode", "call"} => r.calls = 0
        /\ r.pc = "respond" => r.calls = 1
        /\ r.pc = "done" => (r.calls = 0 <=> FailedBeforeCall(r))
        /\ r.calls = 1 =>
              /\ Len(Split(r.method)) = 2
              /\ Split(r.method)[1] \in DOMAIN services
              /\ r.service = services[Split(r.method)[1]]
              /\ r.smethod.method = <<r.service.rcvr, Split(r.method)[2]>>
              /\ \E p \in Regs :
                    /\ reg[p].pc = "done" /\ reg[p].err = "nil"
                    /\ reg[p].rcvr = r.service.rcvr
                    /\ reg[p].s.name = Split(r.method)[1]

C13_Witness ==
    \E q \in Reqs :
        /\ req[q].pc = "done" /\ req[q].calls = 1
        /\ req[q].out.err = "business error"
        /\ req[q].ident = <<"S", Dot, "m">>

\* The status a business failure is answered with.
BusinessStatus == Encode("json", [err |-> "business error", reply |-> "zero"]).status

\* C14 (as claimed): the response to a request whose method could not be
\* resolved or whose argument could not be decoded is never in the status
\* class of the response to a business failure.
C14_StatusClassTellsApart ==
    \A q \in Reqs :
        (req[q].pc = "done" /\ req[q].calls = 0 /\ req[q].verb \in {"GET", "POST"}) =>
            req[q].resp.status \div 100 # BusinessStatus \div 100

\* The service segment of an identifier: what stands before its first dot.
ServiceSegment(id) ==
    LET dots == {i \in 1..Len(id) : id[i] = Dot} IN
    IF dots = {} THEN id
    ELSE [j \in 1..((CHOOSE i \in dots : \A k \in dots : i <= k) - 1) |-> id[j]]

\* Normalization keeps the length and the service segment of every identifier
\* with a dot, and changes lower case to upper case only.
NormalizeKeepsService ==
    \A id \in AllIdents :
        (\E i \in 1..Len(id) : id[i] = Dot) =>
            /\ Len(Normalize(id)) = Len(id)
            /\ ServiceSegment(Normalize(id)) = ServiceSegment(id)
            /\ \A j \in 1..Len(id) :
                  Normalize(id)[j] = id[j] \/
                  (j > Len(ServiceSegment(id)) + 1 /\ Normalize(id)[j] = Upper(id[j]))

\* C15: the dispatcher title-cases only what follows the first dot: "S.m" is
\* looked up as "S.M" and reaches method M of service S; "s.M" stays "s.M" and
\* never resolves to service S; "S" and "S.M.M" never resolve.
C15_TitleCaseSuffixOnly ==
    /\ NormalizeKeepsService
    /\ \A q \in Reqs :
          LET r == req[q] IN
          /\ (r.pc # "idle" /\ r.method # <<>>) =>
                ServiceSegment(r.method) = ServiceSegment(r.ident)
          /\ (r.pc # "idle" /\ r.ident = <<"S", Dot, "m">>) =>
                /\ r.method = <<"S", Dot, "M">>
                /\ r.calls = 1 =>
                      /\ r.service.name = <<"S">>
                      /\ r.smethod = services[<<"S">>].methods[<<"M">>]
          /\ (r.pc # "idle" /\ r.ident = <<"s", Dot, "M">>) =>
                /\ r.method = <<"s", Dot, "M">>
                /\ r.service.name # <<"S">>
                /\ r.calls = 0
                /\ r.pc \in {"has_lock", "has_read", "done"}
                /\ r.pc = "done" => r.resp.status = 404
          /\ (r.pc # "idle" /\ r.ident \in {<<"S">>, <<"S", Dot, "M", Dot, "M">>}) =>
                /\ r.pc = "done"
                /\ r.resp.status = 404
                /\ r.calls = 0
                /\ r.service = NoService

C15_Witness ==
    \E q \in Reqs :
        /\ req[q].pc = "done" /\ req[q].ident = <<"S", Dot, "m">>
        /\ req[q].calls = 1 /\ req[q].resp.status = 200
        /\ req[q].smethod.method[2] = <<"M">>

\* The request has been answered with an explicit status.
Answered(q) == req[q].pc = "done" /\ req[q].resp.status \in {200, 400, 404, 405}

\* C16: every request that has begun is eventually answered with an explicit
\* status, a finished request always has one, and no request is run twice.
C16_EveryRequestAnswered ==
    /\ \A q \in Reqs : (req[q].pc # "idle") ~> Answered(q)
    /\ [](\A q \in Reqs : (req[q].pc = "done" => Answered(q)) /\ req[q].calls <= 1)

C16_Witness ==
    \E q \in Reqs :
        /\ Answered(q) /\ req[q].resp.msg = "errRead" /\ req[q].resp.status = 400
        /\ req[q].calls = 0

\* Before the map exists it is empty, no registration has succeeded, and every
\* lookup of "S.M" reports service-not-found.
C17_NilUntilRegistered ==
    /\ servicesNil =>
          /\ DOMAIN services = {}
          /\ \A p \in Regs : ~(reg[p].pc = "done" /\ reg[p].err = "nil")
    /\ (\E p \in Regs : reg[p].pc = "done" /\ reg[p].err = "nil") => ~servicesNil
    /\ DOMAIN services = {} =>
          \A S \in ServiceParts, M \in MethodParts :
              /\ get(Dotted(S, M)).err = "ErrNoService"
              /\ ~HasMethod(Dotted(S, M))

\* GetAll returns nil exactly when it reads before the map exists; the map is
\* made by a registration that goes on to store, and once made it stays the
\* same map: every entry it holds is retained by every step.
C17_SameMap ==
    /\ \A c \in Callers :
          (call[c].pc = "readall" /\ call'[c].pc = "done") =>
              (call'[c].res = "nilmap" <=> servicesNil)
    /\ (servicesNil /\ ~servicesNil') =>
          \E p \in Regs : reg[p].pc = "make" /\ reg'[p].pc = "store"
    /\ ~servicesNil =>
          /\ ~servicesNil'
          /\ \A n \in DOMAIN services :
                n \in DOMAIN services' /\ services'[n] = services[n]

\* C17: the map does not exist until the first successful registration, until
\* then lookups report not-found and GetAll returns nil, and later
\* registrations add to the same map.
C17_LazyMapKept == []C17_NilUntilRegistered /\ [][C17_SameMap]_vars

C17_Witness ==
    /\ ~servicesNil
    /\ Cardinality(DOMAIN services) = 2
    /\ \E c \in Callers : call[c].pc = "done" /\ call[c].res = "nilmap"

\* The finished register calls that passed their checks and resolve to name.
FinishedFor(name) ==
    {p \in Regs : /\ reg[p].pc = "done"
                  /\ PassesChecks(Rcvr(reg[p].rcvr), reg[p].name)
                  /\ reg[p].s.name = name}

\* C18: of the register calls that resolve to one name, exactly one succeeds,
\* every other one returns "service already defined", and the entry under the
\* name is the successful caller's.
C18_OneWinner ==
    \A p \in Regs :
        LET D == FinishedFor(reg[p].s.name) IN
        p \in D =>
            /\ Cardinality({w \in D : reg[w].err = "nil"}) = 1
            /\ \A l \in D : reg[l].err \in {"nil", "ErrDefined"}
            /\ reg[p].s.name \in DOMAIN services
            /\ \A w \in D : reg[w].err = "nil" => services[reg[p].s.name] = reg[w].s

C18_Witness ==
    \E w, l \in Regs :
        /\ w # l
        /\ reg[w].pc = "done" /\ reg[w].err = "nil"
        /\ reg[l].pc = "done" /\ reg[l].err = "ErrDefined"
        /\ reg[w].s.name = reg[l].s.name
        /\ reg[w].rcvr # reg[l].rcvr
        /\ services[reg[w].s.name].rcvr = reg[w].rcvr

\* C19: a request that passed HasMethod keeps resolving: its identifier is in
\* the registry at every later step of the request, the get of ServeHTTP
\* succeeds, and no request is answered with the error of that get.
C19_GetAfterHasMethod ==
    \A q \in Reqs :
        LET r == req[q] IN
        /\ r.pc \in {"serve", "get_lock", "get_read", "decode", "call", "respond"} =>
              HasMethod(r.method)
        /\ r.pc \in {"decode", "call", "respond"} =>
              r.service = get(r.method).service /\ r.smethod = get(r.method).method
        /\ r.pc = "done" =>
              r.resp.msg \notin {"ErrIllFormed", "ErrNoService", "ErrNoMethod"}

C19_Witness ==
    \E q \in Reqs, p \in Regs :
        /\ req[q].pc = "get_lock"
        /\ reg[p].pc = "store" /\ mutex = p
        /\ DOMAIN services # {}

====
